---- MODULE Spec2Model ----
(***************************************************************************)
(* Model of validators/validators.py (oditorium/django-validators):        *)
(* validators, normalisers and the Cleaner that combines them.             *)
(*                                                                         *)
(* A Python str is a sequence of Unicode code points (integers).  A Python *)
(* value is a record [t, v, e, m]: t is the type tag ("str", "None",       *)
(* "True", "False", "date") or "raise" for a raised exception; v the       *)
(* characters of a str or year, month and day of a date; e and m the class *)
(* and the message of a raised exception.                                  *)
(***************************************************************************)
EXTENDS Integers, Sequences, FiniteSets, TLC

VARIABLES pc, call, ret, regex, fields, cleaners, threads

vars == <<pc, call, ret, regex, fields, cleaners, threads>>

\* longest short text that is enumerated exhaustively over Alphabet
MaxLen == 3

\* number of threads that call the shared instances concurrently
NumThreads == 2

\* dates are the days 1..MaxDay of January and December of 2019 and 2020
MaxDay == 3

-----------------------------------------------------------------------------
(* Python values *)

Str(s) == [t |-> "str", v |-> s, e |-> "", m |-> ""]
PyNone == [t |-> "None", v |-> <<>>, e |-> "", m |-> ""]
PyTrue == [t |-> "True", v |-> <<>>, e |-> "", m |-> ""]
PyFalse == [t |-> "False", v |-> <<>>, e |-> "", m |-> ""]
Raise(exc, msg) == [t |-> "raise", v |-> <<>>, e |-> exc, m |-> msg]
Bool(b) == IF b THEN PyTrue ELSE PyFalse

\* datetime.date(y, m, d)
Date(y, m, d) == [t |-> "date", v |-> <<y, m, d>>, e |-> "", m |-> ""]

\* date1 < date2
DateLess(a, b) ==
    \/ a.v[1] < b.v[1]
    \/ a.v[1] = b.v[1] /\ a.v[2] < b.v[2]
    \/ a.v[1] = b.v[1] /\ a.v[2] = b.v[2] /\ a.v[3] < b.v[3]

\* the decimal digits of n, zero-padded to w characters
RECURSIVE Digits(_, _)
Digits(n, w) == IF w = 0 THEN <<>> ELSE Digits(n \div 10, w - 1) \o <<48 + (n % 10)>>

\* date.strftime(fmt) with the directives %Y, %m, %d and %y
RECURSIVE Strftime(_, _)
Strftime(dt, fmt) ==
    IF fmt = <<>> THEN <<>>
    ELSE IF Head(fmt) = 37 /\ Len(fmt) >= 2
    THEN (CASE fmt[2] = 89 -> Digits(dt.v[1], 4)
            [] fmt[2] = 109 -> Digits(dt.v[2], 2)
            [] fmt[2] = 100 -> Digits(dt.v[3], 2)
            [] fmt[2] = 121 -> Digits(dt.v[1] % 100, 2)
            [] OTHER -> <<37, fmt[2]>>)
         \o Strftime(dt, SubSeq(fmt, 3, Len(fmt)))
    ELSE <<Head(fmt)>> \o Strftime(dt, Tail(fmt))

\* truth value of an object in `if x:` / `if not x:`
Truthy(x) == x.t = "True" \/ (x.t = "str" /\ x.v # <<>>)

\* str(x): a str is itself, None is 'None', True is 'True', False is 'False'
PyStr(x) ==
    CASE x.t = "str" -> x.v
      [] x.t = "None" -> <<78, 111, 110, 101>>
      [] x.t = "True" -> <<84, 114, 117, 101>>
      [] OTHER -> <<70, 97, 108, 115, 101>>

-----------------------------------------------------------------------------
(* Characters.  The code points the model uses:                            *)
(*   10 newline, 32 space, 40 ( 41 ) 45 - 46 . 47 /, 48..57 '0'..'9',      *)
(*   65..90 'A'..'Z', 97..122 'a'..'z', 223 sharp s, 496 j with caron,     *)
(*   780 combining caron, 1632..1641 Arabic-Indic digits.                  *)

\* str.isdigit
IsDigit(c) == c \in 48..57 \/ c \in 1632..1641 \/ c \in {178, 179, 185}

\* str.isalpha
IsAlpha(c) == c \in 65..90 \/ c \in 97..122 \/ c \in {223, 496}

\* str.isalnum
IsAlnum(c) == IsAlpha(c) \/ IsDigit(c)

\* str.isspace, the characters str.strip() removes
IsSpace(c) == c \in 9..13 \/ c \in 28..32 \/ c \in {133, 160}

\* str.upper() of one character (full case mapping: may give two characters)
UpperChar(c) ==
    CASE c \in 97..122 -> <<c - 32>>
      [] c = 223 -> <<83, 83>>
      [] c = 496 -> <<74, 780>>
      [] OTHER -> <<c>>

RECURSIVE Upper(_)
Upper(s) == IF s = <<>> THEN <<>> ELSE UpperChar(Head(s)) \o Upper(Tail(s))

RECURSIVE LStrip(_)
LStrip(s) == IF s # <<>> /\ IsSpace(Head(s)) THEN LStrip(Tail(s)) ELSE s

RECURSIVE RStrip(_)
RStrip(s) ==
    IF s # <<>> /\ IsSpace(s[Len(s)]) THEN RStrip(SubSeq(s, 1, Len(s) - 1)) ELSE s

\* str.strip() removing at most one whitespace character at each end
Strip_once(s) ==
    LET l == IF s # <<>> /\ IsSpace(Head(s)) THEN Tail(s) ELSE s
    IN IF l # <<>> /\ IsSpace(l[Len(l)]) THEN SubSeq(l, 1, Len(l) - 1) ELSE l

Strip(s) == RStrip(LStrip(s))

\* text.replace(r, "") for a one-character r
Replace(s, r) == SelectSeq(s, LAMBDA c : c # r)

\* Python slice t[a:b] (0-based, end exclusive, clipped to the string)
Slice(s, a, b) == SubSeq(s, a + 1, IF b > Len(s) THEN Len(s) ELSE b)

Pred(p, c) ==
    CASE p = "isdigit" -> IsDigit(c)
      [] p = "isalnum" -> IsAlnum(c)
      [] OTHER -> IsAlpha(c)

Predicates == {"isdigit", "isalnum", "isalpha"}

\* _remove_other_chars(is_valid_func)(text)
RemoveOtherChars(p, text) ==
    IF Truthy(text)
    THEN Str(SelectSeq(PyStr(text), LAMBDA c : Pred(p, c)))
    ELSE text

_remove_non_digit_chars(text) == RemoveOtherChars("isdigit", text)
_remove_non_alnum_chars(text) == RemoveOtherChars("isalnum", text)
_remove_non_alpha_chars(text) == RemoveOtherChars("isalpha", text)

-----------------------------------------------------------------------------
(* Regular expressions: a pattern is a sequence of items, each a character *)
(* class with a repetition count lo..hi (star: no upper limit).            *)

Item(cls, lo, hi, star) == [cls |-> cls, lo |-> lo, hi |-> hi, star |-> star]

InClass(cls, c) ==
    CASE cls = "." -> c # 10
      [] cls = "[0-9]" -> c \in 48..57
      [] cls = "[a-zA-Z]" -> c \in 65..90 \/ c \in 97..122
      [] cls = "[a-zA-Z0-9]" -> c \in 48..57 \/ c \in 65..90 \/ c \in 97..122
      [] cls = "[a-z]" -> c \in 97..122
      [] cls = "[A-C]" -> c \in 65..67
      [] OTHER -> c \in 65..90

RECURSIVE MatchFrom(_, _, _, _)
MatchFrom(re, i, s, pos) ==
    IF i > Len(re)
    THEN pos = Len(s) + 1
    ELSE LET rest == Len(s) - pos + 1
             top == IF re[i].star \/ re[i].hi > rest THEN rest ELSE re[i].hi
         IN \E k \in re[i].lo .. top :
                /\ \A j \in pos .. (pos + k - 1) : InClass(re[i].cls, s[j])
                /\ MatchFrom(re, i + 1, s, pos + k)

\* re.fullmatch(regex, s) is not None
FullMatch(re, s) == MatchFrom(re, 1, s, 1)

RegexClasses ==
    {"RegexValidator", "NumericValidator", "AlphaValidator", "AlnumValidator",
     "PhoneValidator", "PassportValidator", "IDCardValidator", "PostCodeValidator"}

\* the class attribute `regex` of each class of the RegexValidator family
ClassRegex(cls) ==
    CASE cls = "RegexValidator" -> <<Item(".", 0, 0, TRUE)>>
      [] cls = "NumericValidator" -> <<Item("[0-9]", 0, 0, TRUE)>>
      [] cls = "AlphaValidator" -> <<Item("[a-zA-Z]", 0, 0, TRUE)>>
      [] cls = "AlnumValidator" -> <<Item("[a-zA-Z0-9]", 0, 0, TRUE)>>
      [] cls = "PhoneValidator" -> <<Item("[0-9]", 10, 11, FALSE)>>
      [] cls = "PassportValidator" ->
             <<Item("[A-Z]", 2, 2, FALSE), Item("[0-9]", 6, 6, FALSE)>>
      [] cls = "IDCardValidator" -> <<Item("[0-9]", 9, 9, FALSE)>>
      [] OTHER -> <<Item("[0-9]", 8, 8, FALSE)>>

\* the regex argument of a constructor: <<>> is None (not given; '' is
\* falsy as well), then r'[a-z][0-9][A-C]' and r'[0-9]*'
RegexArgs ==
    {<<>>,
     <<Item("[a-z]", 1, 1, FALSE), Item("[0-9]", 1, 1, FALSE), Item("[A-C]", 1, 1, FALSE)>>,
     <<Item("[0-9]", 0, 0, TRUE)>>}

\* RegexValidator.__init__(regex), inherited by every class of the family:
\* the attribute `regex` of the instance
RegexValidator__init__(cls, rx) == IF rx # <<>> THEN rx ELSE ClassRegex(cls)

\* the instances of the family: one for each class and constructor argument
RegexInstances ==
    [c \in RegexClasses |-> [rx \in RegexArgs |-> RegexValidator__init__(c, rx)]]

-----------------------------------------------------------------------------
(* Validators *)

\* Validator.__call__
Validator__call__(x) == PyTrue

\* RegexValidator.__call__ with s.regex = rx; re.fullmatch raises TypeError
\* when its argument is not a str
RegexValidator__call__(rx, x) ==
    IF x.t # "str"
    THEN Raise("TypeError", "expected string or bytes-like object")
    ELSE Bool(FullMatch(rx, x.v))

\* sum(w * d) over the first n positions
RECURSIVE Dot(_, _, _)
Dot(ws, ds, n) == IF n = 0 THEN 0 ELSE ws[n] * ds[n] + Dot(ws, ds, n - 1)

\* weights n+1, n, ..., 2 over a prefix of n digits
DescWeights(n) == [i \in 1..n |-> n + 2 - i]

\* weights cycling 2..9 from the right: ..., 3, 2, 9, 8, ..., 3, 2
CycleWeights(n) == [i \in 1..n |-> 2 + ((n - i) % 8)]

\* value of an ASCII digit
DigitValue(c) == c - 48

\* the characters '0'..'9' of a text
DigitsOnly(s) == SelectSeq(s, LAMBDA c : c \in 48..57)

\* modulo-11 check digit of the digit characters ds under the weights ws
CheckDigit(ds, ws) ==
    LET sum == Dot(ws, [i \in 1..Len(ds) |-> DigitValue(ds[i])], Len(ds)) % 11
    IN IF sum < 2 THEN 0 ELSE 11 - sum

\* brazilnum.cpf.validate_cpf
validate_cpf(param) ==
    LET d == DigitsOnly(PyStr(param))
    IN /\ Len(d) = 11
       /\ CheckDigit(SubSeq(d, 1, 9), DescWeights(9)) = DigitValue(d[10])
       /\ CheckDigit(SubSeq(d, 1, 10), DescWeights(10)) = DigitValue(d[11])

\* brazilnum.cnpj.validate_cnpj
validate_cnpj(param) ==
    LET d == DigitsOnly(PyStr(param))
    IN /\ Len(d) = 14
       /\ CheckDigit(SubSeq(d, 1, 12), CycleWeights(12)) = DigitValue(d[13])
       /\ CheckDigit(SubSeq(d, 1, 13), CycleWeights(13)) = DigitValue(d[14])

\* CpfValidator.__call__ calling the CNPJ routine (copy-and-paste slip)
CpfValidator__call__cnpj(param) ==
    IF ~Truthy(param) THEN PyFalse
    ELSE IF validate_cnpj(param) THEN PyTrue ELSE PyFalse

\* CpfValidator.__call__
CpfValidator__call__(param) ==
    IF ~Truthy(param) THEN PyFalse
    ELSE IF validate_cpf(param) THEN PyTrue ELSE PyFalse

\* CnpjValidator.__call__ calling the CPF routine (copy-and-paste slip)
CnpjValidator__call__cpf(param) ==
    IF ~Truthy(param) THEN PyFalse
    ELSE IF validate_cpf(param) THEN PyTrue ELSE PyFalse

\* CnpjValidator.__call__
CnpjValidator__call__(param) ==
    IF ~Truthy(param) THEN PyFalse
    ELSE IF validate_cnpj(param) THEN PyTrue ELSE PyFalse

\* int(v) of one character: defined on decimal digits (ASCII and
\* Arabic-Indic here), ValueError on the other isdigit characters
IntOk(c) == c \in 48..57 \/ c \in 1632..1641
IntOf(c) == IF c \in 48..57 THEN c - 48 ELSE c - 1632

\* dv(partial) inside _check_cpf
CheckCpfDv(partial) ==
    Dot(DescWeights(Len(partial)),
        [i \in 1..Len(partial) |-> IntOf(partial[i])], Len(partial)) % 11

\* dv1 and dv2 as _check_cpf computes them from the 11 digits
CheckCpfDv1(cpf) == 11 - CheckCpfDv(SubSeq(cpf, 1, 9))
CheckCpfDv2(cpf) ==
    LET q2 == CheckCpfDv(SubSeq(cpf, 1, 10)) IN IF q2 >= 2 THEN 11 - q2 ELSE 0

\* _check_cpf: any exception (len(None), int of a non-decimal digit) is
\* swallowed by the bare except and gives None
_check_cpf(x) ==
    LET r == _remove_non_digit_chars(x)
        cpf == r.v
    IN IF r.t # "str" THEN PyNone
       ELSE IF Len(cpf) # 11 THEN PyNone
       ELSE IF \E i \in 1..10 : ~IntOk(cpf[i]) THEN PyNone
       ELSE IF CheckCpfDv1(cpf) # IntOf(cpf[10]) THEN PyFalse
       ELSE IF ~IntOk(cpf[11]) THEN PyNone
       ELSE Bool(CheckCpfDv2(cpf) = IntOf(cpf[11]))

\* v(text) for an instance of class cls; rxs gives each regex instance's s.regex
ValidatorCall(rxs, cls, x) ==
    CASE cls = "Validator" -> Validator__call__(x)
      [] cls = "CpfValidator" -> CpfValidator__call__(x)
      [] cls = "CnpjValidator" -> CnpjValidator__call__(x)
      [] OTHER -> RegexValidator__call__(rxs[cls][<<>>], x)

-----------------------------------------------------------------------------
(* Normalisers *)

\* DobValidator.__call__(date), where datetime.date.today() returns today:
\* the else branch has no return statement, so the call returns None
DobValidator__call__(date, today) ==
    IF DateLess(date, today) THEN PyTrue ELSE PyNone

\* Normaliser.__init__ without its last line: strip is never switched off
Normaliser__init__keepstrip(a) ==
    [remove |-> IF a.remove # <<>> THEN a.remove ELSE <<>>,
     strip |-> TRUE,
     lstrip |-> IF a.lstrip = "True" THEN TRUE ELSE FALSE,
     rstrip |-> IF a.rstrip = "True" THEN TRUE ELSE FALSE]

\* Normaliser.__init__(remove, strip, lstrip, rstrip) over the class
\* attributes remove = '', strip = True, lstrip = False, rstrip = False.
\* remove is a str ('' when not given); the flags are "None", "True", "False".
Normaliser__init__(a) ==
    [remove |-> IF a.remove # <<>> THEN a.remove ELSE <<>>,
     strip |-> IF (a.lstrip = "True" \/ a.rstrip = "True") /\ a.strip = "None"
               THEN FALSE
               ELSE IF a.strip = "True" THEN TRUE ELSE TRUE,
     lstrip |-> IF a.lstrip = "True" THEN TRUE ELSE FALSE,
     rstrip |-> IF a.rstrip = "True" THEN TRUE ELSE FALSE]

NoArgs == [remove |-> <<>>, strip |-> "None", lstrip |-> "None", rstrip |-> "None"]

RECURSIVE RemoveAll(_, _)
RemoveAll(text, remove) ==
    IF remove = <<>> THEN text
    ELSE RemoveAll(Replace(text, Head(remove)), Tail(remove))

\* Normaliser._inp
Normaliser_inp(f, text) ==
    LET t0 == RemoveAll(text, f.remove)
        t1 == IF f.strip THEN Strip(t0) ELSE t0
        t2 == IF f.lstrip THEN LStrip(t1) ELSE t1
    IN IF f.rstrip THEN RStrip(t2) ELSE t2

\* PassportNormaliser._inp
PassportNormaliser_inp(text) == Upper(_remove_non_alnum_chars(Str(text)).v)

DigitClasses ==
    {"NumericNormaliser", "PhoneNormaliser", "MobNormaliser", "IDCardNormaliser",
     "PostCodeNormaliser", "CpfNormaliser", "CnpjNormaliser"}

\* s._inp(text) by class; flds gives the fields of each base Normaliser instance
_inp(flds, n, text) ==
    CASE n.cls = "Normaliser" -> Normaliser_inp(flds[n.args], text)
      [] n.cls \in DigitClasses -> _remove_non_digit_chars(Str(text)).v
      [] n.cls = "AlphaNormaliser" -> _remove_non_alpha_chars(Str(text)).v
      [] n.cls = "AlnumNormaliser" -> _remove_non_alnum_chars(Str(text)).v
      [] OTHER -> PassportNormaliser_inp(text)

\* PhoneNormaliser._outp: (12) 3456 7890 or (12) 3456 78901
PhoneNormaliser_outp(t) ==
    IF Len(t) \notin {10, 11} THEN t
    ELSE <<40>> \o Slice(t, 0, 2) \o <<41, 32>> \o Slice(t, 2, 6) \o <<32>>
         \o Slice(t, 6, Len(t))

\* PassportNormaliser._outp
PassportNormaliser_outp(text) ==
    IF Len(text) # 8 THEN text
    ELSE Slice(text, 0, 2) \o <<32>> \o Slice(text, 2, 5) \o <<32>> \o Slice(text, 5, 8)

\* IDCardNormaliser._outp
IDCardNormaliser_outp(text) ==
    IF Len(text) # 9 THEN text
    ELSE Slice(text, 0, 4) \o <<46>> \o Slice(text, 4, 8) \o <<45>> \o Slice(text, 8, 9)

\* PostCodeNormaliser._outp: 11111-111
PostCodeNormaliser_outp(t) ==
    IF Len(t) # 8 THEN t
    ELSE Slice(t, 0, 5) \o <<45>> \o Slice(t, 5, 8)

\* CpfNormaliser._outp with the last slice one character short
CpfNormaliser_outp_short(t) ==
    IF Len(t) # 11 THEN t
    ELSE Slice(t, 0, 3) \o <<46>> \o Slice(t, 3, 6) \o <<46>> \o Slice(t, 6, 9)
         \o <<45>> \o Slice(t, 9, 10)

\* CpfNormaliser._outp: 999.999.999-99
CpfNormaliser_outp(t) ==
    IF Len(t) # 11 THEN t
    ELSE Slice(t, 0, 3) \o <<46>> \o Slice(t, 3, 6) \o <<46>> \o Slice(t, 6, 9)
         \o <<45>> \o Slice(t, 9, 11)

\* CnpjNormaliser._outp: 00.000.000/0001-00
CnpjNormaliser_outp(t) ==
    IF Len(t) # 14 THEN t
    ELSE Slice(t, 0, 2) \o <<46>> \o Slice(t, 2, 5) \o <<46>> \o Slice(t, 5, 8)
         \o <<47>> \o Slice(t, 8, 12) \o <<45>> \o Slice(t, 12, 14)

\* s._outp(text) by class (Normaliser._outp is the identity)
_outp(n, text) ==
    CASE n.cls \in {"PhoneNormaliser", "MobNormaliser"} -> PhoneNormaliser_outp(text)
      [] n.cls = "PassportNormaliser" -> PassportNormaliser_outp(text)
      [] n.cls = "IDCardNormaliser" -> IDCardNormaliser_outp(text)
      [] n.cls = "PostCodeNormaliser" -> PostCodeNormaliser_outp(text)
      [] n.cls = "CpfNormaliser" -> CpfNormaliser_outp(text)
      [] n.cls = "CnpjNormaliser" -> CnpjNormaliser_outp(text)
      [] OTHER -> text

\* NullNormaliser.inp and NullNormaliser.outp: pass through
NullNormaliser_inp(data) == data
NullNormaliser_outp(data) == data

\* DateNormaliser.outp(dt), where get_format('DATE_INPUT_FORMATS') returns
\* date_formats (<<>> is an empty list or None): a date is formatted with
\* the second format, which a list of one format does not have
DateNormaliser_outp(dt, date_formats) ==
    IF date_formats # <<>> /\ Len(date_formats) > 0 /\ dt.t = "date"
    THEN IF Len(date_formats) < 2 THEN Raise("IndexError", "list index out of range")
         ELSE Str(Strftime(dt, date_formats[2]))
    ELSE dt

\* the normalisers that do not derive from Normaliser
PassThroughNormalisers == {"NullNormaliser", "DateNormaliser"}

\* Normaliser.inp (NullNormaliser.inp for NullNormaliser and DateNormaliser)
inp(flds, n, x) ==
    IF n.cls \in PassThroughNormalisers THEN NullNormaliser_inp(x)
    ELSE LET t0 == IF ~Truthy(x) THEN Str(<<>>) ELSE x
         IN Str(_inp(flds, n, PyStr(t0)))

\* Normaliser.outp (NullNormaliser.outp for a NullNormaliser; the outp of a
\* DateNormaliser is DateNormaliser_outp)
outp(flds, n, x) ==
    IF n.cls = "NullNormaliser" THEN NullNormaliser_outp(x)
    ELSE LET t0 == IF ~Truthy(x) THEN Str(<<>>) ELSE x
             t1 == inp(flds, n, Str(PyStr(t0)))
         IN Str(_outp(n, t1.v))

-----------------------------------------------------------------------------
(* Cleaner *)

N(cls) == [cls |-> cls, args |-> NoArgs]

\* Cleaner.__init__; "None" stands for an argument that is not given
Cleaner__init__(validator, normaliser, exception_msg, exception) ==
    [validator |-> IF validator = "None" THEN "Validator" ELSE validator,
     normaliser |-> IF normaliser = "None" THEN N("Normaliser") ELSE N(normaliser),
     exception_msg |-> IF exception_msg = "None" THEN "validation error"
                       ELSE exception_msg,
     exception |-> IF exception = "None" THEN "ValidationError" ELSE exception]

\* Cleaner.execute validating the raw text instead of the normalised one
execute_raw(rxs, flds, c, x) ==
    LET text == inp(flds, c.normaliser, x)
        ok == ValidatorCall(rxs, c.validator, x)
    IN IF ok.t = "raise" THEN ok
       ELSE IF Truthy(ok) THEN text
       ELSE Raise(c.exception, c.exception_msg)

\* Cleaner.execute (and its alias Cleaner.__call__)
execute(rxs, flds, c, x) ==
    LET text == inp(flds, c.normaliser, x)
        ok == ValidatorCall(rxs, c.validator, text)
    IN IF ok.t = "raise" THEN ok
       ELSE IF Truthy(ok) THEN text
       ELSE Raise(c.exception, c.exception_msg)

\* Cleaner.ft formatting only what Cleaner.execute accepts
ft_checked(flds, c, x) ==
    LET r == execute(RegexInstances, flds, c, x)
    IN IF r.t = "raise" THEN r ELSE outp(flds, c.normaliser, x)

\* Cleaner.ft
ft(flds, c, x) == outp(flds, c.normaliser, x)

-----------------------------------------------------------------------------
(* The texts the operations are called with *)

\* short texts are built from: newline, space, '-', '0', '1', 'A', 'a',
\* j with caron (a letter whose upper case is 'J' + combining caron) and
\* Arabic-Indic digit three (a digit for str.isdigit, not for [0-9])
Alphabet == {10, 32, 45, 48, 49, 65, 97, 496, 1635}

RECURSIVE Seqs(_, _)
Seqs(S, n) ==
    IF n = 0 THEN {<<>>}
    ELSE LET P == Seqs(S, n - 1) IN P \cup {Append(p, c) : p \in P, c \in S}

Short == Seqs(Alphabet, MaxLen)

\* long texts: a prefix, the first p characters of '12345678901234', a tail
PadDigits == <<49, 50, 51, 52, 53, 54, 55, 56, 57, 48, 49, 50, 51, 52>>
PadLens == {5, 6, 7, 8, 9, 10, 11, 13, 14}
Prefixes == {<<>>, <<65, 65>>, <<496, 45>>}
Tails == Seqs(Alphabet, 1) \cup {<<48, 49>>, <<45, 48>>, <<97, 32>>, <<49, 10>>}

Long == {pre \o SubSeq(PadDigits, 1, p) \o tl :
            pre \in Prefixes, p \in PadLens, tl \in Tails}

\* texts of the repository's tests
Vectors ==
    {
     <<55, 48, 54, 48, 48, 51, 57, 57, 49, 48, 57>>,
         \* '70600399109'
     <<48, 48, 48, 48, 48, 49, 49, 56, 48, 48, 49>>,
         \* '00000118001'
     <<48, 48, 48, 48, 48, 49, 50, 56, 49, 53, 53>>,
         \* '00000128155'
     <<54, 57, 55, 50, 48, 48, 49, 48, 53, 54, 56>>,
         \* '69720010568'
     <<54, 57, 55, 46, 50, 48, 48, 46, 49, 48, 53, 45, 54, 56>>,
         \* '697.200.105-68'
     <<48, 48, 48, 48, 48, 49, 50, 56, 49, 53, 54>>,
         \* '00000128156'
     <<48, 48, 48, 46, 48, 48, 49, 46, 50, 56, 49, 45, 53, 53>>,
         \* '000.001.281-55'
     <<48, 48, 48, 32, 48, 48, 49, 32, 50, 56, 49, 32, 53, 53>>,
         \* '000 001 281 55'
     <<48, 48, 48, 48, 48, 49, 50, 56, 49, 53, 53, 53>>,
         \* '000001281555'
     <<48, 48, 48, 48, 48, 49, 50, 56, 49, 53>>,
         \* '0000012815'
     <<55, 48, 54, 46, 48, 48, 51, 47, 57, 57, 49, 45, 48, 57>>,
         \* '706.003/991-09'
     <<54, 50, 49, 55, 51, 54, 50, 48, 48, 48, 48, 49, 56, 48>>,
         \* '62173620000180'
     <<54, 50, 49, 55, 51, 54, 50, 48, 48, 48, 48, 49, 56, 49>>,
         \* '62173620000181'
     <<57, 48, 52, 48, 48, 56, 56, 56, 48, 48, 48, 49, 52, 50>>,
         \* '90400888000142'
     <<57, 48, 52, 48, 48, 56, 56, 56, 48, 48, 48, 49, 52, 57>>,
         \* '90400888000149'
     <<54, 50, 46, 49, 55, 51, 46, 54, 50, 48, 47, 48, 48, 48, 49, 45, 56, 48>>,
         \* '62.173.620/0001-80'
     <<32, 32, 54, 50, 32, 49, 55, 51, 32, 54, 50, 48, 32, 48, 48, 48, 49, 32, 56, 48, 32, 32, 32>>,
         \* '  62 173 620 0001 80   '
     <<54, 50, 49, 55, 51, 54, 50, 48, 48, 48, 48, 49, 56, 48, 48>>,
         \* '621736200001800'
     <<54, 50, 49, 55, 51, 54, 50, 48, 48, 48, 48, 49, 56>>,
         \* '6217362000018'
     <<49, 50, 51, 52, 53, 54, 55, 56, 57, 48>>,
         \* '1234567890'
     <<49, 50, 51, 52, 53, 54, 55, 56, 57, 48, 49>>,
         \* '12345678901'
     <<49, 50, 51, 52, 53, 54, 55, 56, 57>>,
         \* '123456789'
     <<49, 50, 51, 52, 53, 54, 55, 56, 57, 48, 49, 50>>,
         \* '123456789012'
     <<40, 48, 49, 41, 45, 50, 51, 52, 53, 46, 54, 55, 56, 57>>,
         \* '(01)-2345.6789'
     <<49, 45, 50, 49, 50, 45, 51, 49, 55, 45, 48, 48, 48>>,
         \* '1-212-317-000'
     <<49, 50, 51, 52, 53, 54, 55, 56>>,
         \* '12345678'
     <<65, 65, 49, 50, 51, 52, 53, 54>>,
         \* 'AA123456'
     <<97, 97, 45, 49, 50, 51, 52, 53, 54>>,
         \* 'aa-123456'
     <<65, 65, 45, 49, 50, 51, 46, 52, 53, 54>>,
         \* 'AA-123.456'
     <<32, 32, 65, 65, 49, 50, 51, 52, 53, 54, 32, 32>>,
         \* '  AA123456  '
     <<97, 97, 45, 49, 50, 45, 51, 52, 45, 53, 54>>,
         \* 'aa-12-34-56'
     <<65, 65, 65, 49, 50, 51, 52, 53, 54>>,
         \* 'AAA123456'
     <<49, 50, 51, 52, 53, 54, 97, 98>>,
         \* '123456ab'
     <<49, 50, 51, 52, 46, 53, 54, 55, 56, 45, 57>>,
         \* '1234.5678-9'
     <<49, 50, 45, 51, 52, 46, 53, 54, 61, 55, 56, 47, 57>>,
         \* '12-34.56=78/9'
     <<97, 97, 49, 50, 51, 52, 53, 54, 55>>,
         \* 'aa1234567'
     <<32, 97, 98, 99, 32>>,
         \* ' abc '
     <<32, 32, 49, 50, 51, 32, 32, 97, 98, 99, 38, 42, 64, 36, 32, 45, 45, 61, 32>>,
         \* '  123  abc&*@$ --= '
     <<49, 97, 61, 50, 98, 45, 51, 99>>,
         \* '1a=2b-3c'
     <<49, 48, 48, 44, 48, 48, 48, 44, 48, 48, 48, 46, 48, 48>>,
         \* '100,000,000.00'
     <<496, 49, 50, 51, 52, 53, 54>>,
         \* '\u01f0123456'
     <<97, 10, 98>>,
         \* 'a\nb'
     <<97, 48, 65>>,
         \* 'a0A'
     <<98, 53, 67>>,
         \* 'b5C'
     <<98, 53, 67, 32>>,
         \* 'b5C '
     <<32, 98, 53, 67>>
         \* ' b5C'
    }

Falsy == {PyNone, PyFalse}

\* the arguments of the general operations
Inputs == {Str(s) : s \in Short \cup Long \cup Vectors} \cup Falsy

\* the arguments of a base Normaliser
BaseInputs == {Str(s) : s \in Short \cup Vectors} \cup Falsy

ToChars(ds) == [i \in 1..Len(ds) |-> ds[i] + 48]

\* candidate CPF numbers: 0000000ab or a prefix of the tests, then any two
\* check digits
CpfPrefixes ==
    {<<0, 0, 0, 0, 0, 0, 0, a, b>> : a, b \in 0..9}
    \cup {<<7, 0, 6, 0, 0, 3, 9, 9, 1>>, <<6, 9, 7, 2, 0, 0, 1, 0, 5>>}
CpfInputs == {Str(ToChars(p \o <<d1, d2>>)) : p \in CpfPrefixes, d1, d2 \in 0..9}

\* candidate CNPJ numbers, likewise
CnpjPrefixes ==
    {<<0, 0, 0, 0, 0, 0, 0, 0, 0, 0, a, b>> : a, b \in 0..9}
    \cup {<<6, 2, 1, 7, 3, 6, 2, 0, 0, 0, 0, 1>>,
          <<9, 0, 4, 0, 0, 8, 8, 8, 0, 0, 0, 1>>}
CnpjInputs == {Str(ToChars(p \o <<d1, d2>>)) : p \in CnpjPrefixes, d1, d2 \in 0..9}

\* constructor arguments of the base Normaliser instances
BaseArgs ==
    [remove : {<<>>, <<45>>, <<45, 97>>}, strip : {"None", "True", "False"},
     lstrip : {"None", "True"}, rstrip : {"None", "True"}]

DerivedNormalisers ==
    {"NumericNormaliser", "AlphaNormaliser", "AlnumNormaliser", "PhoneNormaliser",
     "MobNormaliser", "PassportNormaliser", "IDCardNormaliser",
     "PostCodeNormaliser", "CpfNormaliser", "CnpjNormaliser"}

\* the Cleaner instances of tests_validators.py (setUp)
CleanerNames ==
    {"clean", "clean_numeric", "clean_alpha", "clean_alnum", "clean_passport",
     "clean_idcard", "clean_cpf", "clean_cnpj"}

MakeCleaner(name) ==
    CASE name = "clean" -> Cleaner__init__("None", "None", "None", "None")
      [] name = "clean_numeric" ->
             Cleaner__init__("NumericValidator", "NumericNormaliser", "xyz", "None")
      [] name = "clean_alpha" ->
             Cleaner__init__("AlphaValidator", "AlphaNormaliser", "xyz", "None")
      [] name = "clean_alnum" ->
             Cleaner__init__("AlnumValidator", "AlnumNormaliser", "xyz", "None")
      [] name = "clean_passport" ->
             Cleaner__init__("PassportValidator", "PassportNormaliser", "xyz", "None")
      [] name = "clean_idcard" ->
             Cleaner__init__("IDCardValidator", "IDCardNormaliser", "xyz", "None")
      [] name = "clean_cpf" ->
             Cleaner__init__("CpfValidator", "CpfNormaliser", "xyz", "None")
      [] OTHER -> Cleaner__init__("CnpjValidator", "CnpjNormaliser", "xyz", "None")

-----------------------------------------------------------------------------
(* The state machine: a caller picks an operation and an argument, the     *)
(* operation runs to completion and its result is recorded, the caller     *)
(* takes the result and is ready for the next call.  regex, fields and     *)
(* cleaners hold the attributes of the instances.                          *)

\* threads of a server process; a thread is at a position (pc) of the
\* operation op it runs on the shared Cleaner cls with the argument arg;
\* text and ok are the local variables of Cleaner.execute
Threads == 1..NumThreads

ThreadIdle ==
    [pc |-> "idle", op |-> "", cls |-> "", arg |-> PyNone, text |-> PyNone,
     ok |-> PyNone, ret |-> PyNone]

\* a call of an instance of cls constructed with args (a Normaliser) or regex
\* (a RegexValidator); today and formats are what datetime.date.today() and
\* formats.get_format('DATE_INPUT_FORMATS') return during the call (None and
\* no formats for the operations that do not ask)
Call(op, cls, args, arg) ==
    [op |-> op, cls |-> cls, args |-> args, arg |-> arg, regex |-> <<>>,
     today |-> PyNone, formats |-> <<>>]

Init ==
    /\ pc = "idle"
    /\ call = Call("", "", NoArgs, PyNone)
    /\ ret = PyNone
    /\ regex = RegexInstances
    /\ fields = [a \in BaseArgs |-> Normaliser__init__(a)]
    /\ cleaners = [k \in CleanerNames |-> MakeCleaner(k)]
    /\ threads = [t \in Threads |-> ThreadIdle]

Done(op, cls, args, arg, result) ==
    /\ pc' = "done"
    /\ call' = Call(op, cls, args, arg)
    /\ ret' = result
    /\ UNCHANGED <<regex, fields, cleaners, threads>>

CallValidator ==
    /\ pc = "idle"
    /\ \E x \in Inputs :
           Done("validate", "Validator", NoArgs, x, Validator__call__(x))

CallRegexValidator ==
    /\ pc = "idle"
    /\ \E cls \in RegexClasses, rx \in RegexArgs, x \in Inputs :
           /\ pc' = "done"
           /\ call' = [Call("validate", cls, NoArgs, x) EXCEPT !.regex = rx]
           /\ ret' = RegexValidator__call__(regex[cls][rx], x)
           /\ UNCHANGED <<regex, fields, cleaners, threads>>

CallCpfValidator ==
    /\ pc = "idle"
    /\ \E x \in Inputs \cup CpfInputs :
           Done("validate", "CpfValidator", NoArgs, x, CpfValidator__call__(x))

CallCnpjValidator ==
    /\ pc = "idle"
    /\ \E x \in Inputs \cup CnpjInputs :
           Done("validate", "CnpjValidator", NoArgs, x, CnpjValidator__call__(x))

Dates == {Date(y, m, d) : y \in {2019, 2020}, m \in {1, 12}, d \in 1..MaxDay}

\* what get_format('DATE_INPUT_FORMATS') can return: nothing, the list
\* ['%Y-%m-%d'], or the list ['%Y-%m-%d', '%m/%d/%Y', '%m/%d/%y']
DateFormats ==
    {<<>>,
     <<(<<37, 89, 45, 37, 109, 45, 37, 100>>)>>,
     <<(<<37, 89, 45, 37, 109, 45, 37, 100>>), (<<37, 109, 47, 37, 100, 47, 37, 89>>),
       (<<37, 109, 47, 37, 100, 47, 37, 121>>)>>}

CallDobValidator ==
    /\ pc = "idle"
    /\ \E date \in Dates, today \in Dates :
           /\ pc' = "done"
           /\ call' = [Call("validate", "DobValidator", NoArgs, date)
                           EXCEPT !.today = today]
           /\ ret' = DobValidator__call__(date, today)
           /\ UNCHANGED <<regex, fields, cleaners, threads>>

CallCheckCpf ==
    /\ pc = "idle"
    /\ \E x \in Inputs \cup CpfInputs :
           Done("_check_cpf", "", NoArgs, x, _check_cpf(x))

CallRemoveOtherChars ==
    /\ pc = "idle"
    /\ \E p \in Predicates, x \in Inputs :
           Done("remove", p, NoArgs, x, RemoveOtherChars(p, x))

CallBaseInp ==
    /\ pc = "idle"
    /\ \E a \in BaseArgs, x \in BaseInputs :
           Done("inp", "Normaliser", a, x,
                inp(fields, [cls |-> "Normaliser", args |-> a], x))

CallBaseOutp ==
    /\ pc = "idle"
    /\ \E a \in BaseArgs, x \in BaseInputs :
           Done("outp", "Normaliser", a, x,
                outp(fields, [cls |-> "Normaliser", args |-> a], x))

CallInp ==
    /\ pc = "idle"
    /\ \E cls \in DerivedNormalisers, x \in Inputs :
           Done("inp", cls, NoArgs, x, inp(fields, N(cls), x))

CallOutp ==
    /\ pc = "idle"
    /\ \E cls \in DerivedNormalisers, x \in Inputs :
           Done("outp", cls, NoArgs, x, outp(fields, N(cls), x))

CallNullInp ==
    /\ pc = "idle"
    /\ \E cls \in PassThroughNormalisers, x \in Inputs \cup Dates :
           Done("inp", cls, NoArgs, x, inp(fields, N(cls), x))

CallNullOutp ==
    /\ pc = "idle"
    /\ \E x \in Inputs \cup Dates :
           Done("outp", "NullNormaliser", NoArgs, x,
                outp(fields, N("NullNormaliser"), x))

CallDateOutp ==
    /\ pc = "idle"
    /\ \E x \in Inputs \cup Dates, date_formats \in DateFormats :
           /\ pc' = "done"
           /\ call' = [Call("outp", "DateNormaliser", NoArgs, x)
                           EXCEPT !.formats = date_formats]
           /\ ret' = DateNormaliser_outp(x, date_formats)
           /\ UNCHANGED <<regex, fields, cleaners, threads>>

CleanerInputs(k) ==
    Inputs \cup (IF k = "clean_cpf" THEN CpfInputs ELSE {})
           \cup (IF k = "clean_cnpj" THEN CnpjInputs ELSE {})

CallExecute ==
    /\ pc = "idle"
    /\ \E k \in CleanerNames :
           \E x \in CleanerInputs(k) :
               Done("execute", k, NoArgs, x, execute(regex, fields, cleaners[k], x))

CallFt ==
    /\ pc = "idle"
    /\ \E k \in CleanerNames, x \in Inputs :
           Done("ft", k, NoArgs, x, ft(fields, cleaners[k], x))

Return ==
    /\ pc = "done"
    /\ pc' = "idle"
    /\ call' = Call("", "", NoArgs, PyNone)
    /\ ret' = PyNone
    /\ UNCHANGED <<regex, fields, cleaners, threads>>

Next ==
    \/ CallValidator
    \/ CallRegexValidator
    \/ CallCpfValidator
    \/ CallCnpjValidator
    \/ CallDobValidator
    \/ CallCheckCpf
    \/ CallRemoveOtherChars
    \/ CallBaseInp
    \/ CallBaseOutp
    \/ CallInp
    \/ CallOutp
    \/ CallNullInp
    \/ CallNullOutp
    \/ CallDateOutp
    \/ CallExecute
    \/ CallFt
    \/ Return

Spec == Init /\ [][Next]_vars

-----------------------------------------------------------------------------
(* Concurrent calls: the threads share the module-level Cleaner instances  *)
(* (as views.py does with clean_passport) and the validator and normaliser *)
(* inside them.  A thread can be preempted between any two statements of    *)
(* Cleaner.execute; the other operations are one statement.                *)

ConcOps == {"execute", "ft", "validate", "inp", "outp"}
ConcCleaners == {"clean_passport", "clean_alnum"}

\* 'aa-123456', 'AAA123456' and None
ConcInputs ==
    {Str(<<97, 97, 45, 49, 50, 51, 52, 53, 54>>),
     Str(<<65, 65, 65, 49, 50, 51, 52, 53, 54>>), PyNone}

\* thread t enters an operation of a shared Cleaner
TStart(t) ==
    /\ threads[t].pc = "idle"
    /\ \E op \in ConcOps, k \in ConcCleaners, x \in ConcInputs :
           threads' = [threads EXCEPT ![t] =
                           [ThreadIdle EXCEPT !.pc = "called", !.op = op,
                                              !.cls = k, !.arg = x]]
    /\ UNCHANGED <<pc, call, ret, regex, fields, cleaners>>

\* Cleaner.execute: text = s.normaliser(text)
TNormalise(t) ==
    /\ threads[t].pc = "called"
    /\ threads[t].op = "execute"
    /\ threads' = [threads EXCEPT
                       ![t].pc = "normalised",
                       ![t].text = inp(fields, cleaners[threads[t].cls].normaliser,
                                       threads[t].arg)]
    /\ UNCHANGED <<pc, call, ret, regex, fields, cleaners>>

\* Cleaner.execute: s.validator(text), writing the verdict into the message
\* of the shared Cleaner
TValidate_store(t) ==
    /\ threads[t].pc = "normalised"
    /\ threads' = [threads EXCEPT
                       ![t].pc = "validated",
                       ![t].ok = ValidatorCall(regex, cleaners[threads[t].cls].validator,
                                               threads[t].text)]
    /\ cleaners' = [cleaners EXCEPT ![threads[t].cls].exception_msg =
                        IF Truthy(threads'[t].ok) THEN "valid" ELSE "invalid"]
    /\ UNCHANGED <<pc, call, ret, regex, fields>>

\* Cleaner.execute: s.validator(text)
TValidate(t) ==
    /\ threads[t].pc = "normalised"
    /\ threads' = [threads EXCEPT
                       ![t].pc = "validated",
                       ![t].ok = ValidatorCall(regex, cleaners[threads[t].cls].validator,
                                               threads[t].text)]
    /\ UNCHANGED <<pc, call, ret, regex, fields, cleaners>>

\* Cleaner.execute: return text, or raise s.exception(s.exception_msg)
TFinish(t) ==
    /\ threads[t].pc = "validated"
    /\ LET th == threads[t]
           c == cleaners[th.cls]
       IN threads' = [threads EXCEPT
                          ![t].pc = "done",
                          ![t].ret = IF th.ok.t = "raise" THEN th.ok
                                     ELSE IF Truthy(th.ok) THEN th.text
                                     ELSE Raise(c.exception, c.exception_msg)]
    /\ UNCHANGED <<pc, call, ret, regex, fields, cleaners>>

\* Cleaner.ft
TFt(t) ==
    /\ threads[t].pc = "called"
    /\ threads[t].op = "ft"
    /\ threads' = [threads EXCEPT
                       ![t].pc = "done",
                       ![t].ret = ft(fields, cleaners[threads[t].cls], threads[t].arg)]
    /\ UNCHANGED <<pc, call, ret, regex, fields, cleaners>>

\* a call of the Cleaner's validator
TValidator(t) ==
    /\ threads[t].pc = "called"
    /\ threads[t].op = "validate"
    /\ threads' = [threads EXCEPT
                       ![t].pc = "done",
                       ![t].ret = ValidatorCall(regex, cleaners[threads[t].cls].validator,
                                                threads[t].arg)]
    /\ UNCHANGED <<pc, call, ret, regex, fields, cleaners>>

\* inp of the Cleaner's normaliser
TInp(t) ==
    /\ threads[t].pc = "called"
    /\ threads[t].op = "inp"
    /\ threads' = [threads EXCEPT
                       ![t].pc = "done",
                       ![t].ret = inp(fields, cleaners[threads[t].cls].normaliser,
                                      threads[t].arg)]
    /\ UNCHANGED <<pc, call, ret, regex, fields, cleaners>>

\* outp of the Cleaner's normaliser
TOutp(t) ==
    /\ threads[t].pc = "called"
    /\ threads[t].op = "outp"
    /\ threads' = [threads EXCEPT
                       ![t].pc = "done",
                       ![t].ret = outp(fields, cleaners[threads[t].cls].normaliser,
                                       threads[t].arg)]
    /\ UNCHANGED <<pc, call, ret, regex, fields, cleaners>>

\* the caller takes the result
TReturn(t) ==
    /\ threads[t].pc = "done"
    /\ threads' = [threads EXCEPT ![t] = ThreadIdle]
    /\ UNCHANGED <<pc, call, ret, regex, fields, cleaners>>

NextConc ==
    \E t \in Threads :
        \/ TStart(t)
        \/ TNormalise(t)
        \/ TValidate(t)
        \/ TFinish(t)
        \/ TFt(t)
        \/ TValidator(t)
        \/ TInp(t)
        \/ TOutp(t)
        \/ TReturn(t)

SpecConc == Init /\ [][NextConc]_vars

-----------------------------------------------------------------------------
(* Properties *)

IsCall(op) == pc = "done" /\ call.op = op

\* the normaliser instance a normaliser call was made on
CallN == [cls |-> call.cls, args |-> call.args]

\* C1: Cleaner.execute(text) computes n = normaliser(text), applies the
\* validator to n (not to the raw text), returns exactly n when the validator
\* accepts n and otherwise raises the configured exception with the configured
\* message, whatever the cause of the rejection.
C1_ExecuteContract ==
    IsCall("execute") =>
        LET c == cleaners[call.cls]
            n == inp(fields, c.normaliser, call.arg)
        IN IF ValidatorCall(regex, c.validator, n) = PyTrue
           THEN ret = n
           ELSE /\ ret.t = "raise"
                /\ ret.e = c.exception
                /\ ret.m = c.exception_msg
                /\ ret.v = <<>>

\* clean_cpf has rejected an 11-digit number with a wrong check digit
C1_Witness ==
    /\ IsCall("execute")
    /\ call.cls = "clean_cpf"
    /\ call.arg = Str(<<48, 48, 48, 48, 48, 49, 50, 56, 49, 53, 54>>)
    /\ ret = Raise("ValidationError", "xyz")

\* C2: CpfValidator returns False for empty or absent input; otherwise it
\* strips the non-digits, returns False unless 11 digits remain, and then
\* returns True iff the check digit over the first 9 digits is the 10th digit
\* and the check digit over the first 10 digits is the 11th; separators in the
\* input do not change the verdict.
C2_CpfVerdict ==
    (IsCall("validate") /\ call.cls = "CpfValidator") =>
        LET x == call.arg
            d == DigitsOnly(PyStr(x))
        IN IF x.t # "str" \/ x.v = <<>>
           THEN ret = PyFalse
           ELSE /\ ret \in {PyTrue, PyFalse}
                /\ Len(d) # 11 => ret = PyFalse
                /\ Len(d) = 11 =>
                       (ret = PyTrue <=>
                            /\ CheckDigit(SubSeq(d, 1, 9), DescWeights(9)) = d[10] - 48
                            /\ CheckDigit(SubSeq(d, 1, 10), DescWeights(10)) = d[11] - 48)
                /\ ret = CpfValidator__call__(Str(d))

\* CpfValidator has accepted '697.200.105-68'
C2_Witness ==
    /\ IsCall("validate")
    /\ call.cls = "CpfValidator"
    /\ call.arg = Str(<<54, 57, 55, 46, 50, 48, 48, 46, 49, 48, 53, 45, 54, 56>>)
    /\ ret = PyTrue

\* the digits d with the last one replaced by the digit k
WithLast(d, k) == [d EXCEPT ![Len(d)] = k + 48]

\* C3: CnpjValidator returns False for empty or absent input and for any
\* input whose digits are not exactly 14 (a valid 11-digit CPF included);
\* otherwise it returns True iff the check digits computed from the first 12
\* and the first 13 digits with the weights cycling 2..9 are the 13th and the
\* 14th digit; changing only the last digit of an accepted number makes it
\* rejected.
C3_CnpjVerdict ==
    (IsCall("validate") /\ call.cls = "CnpjValidator") =>
        LET x == call.arg
            d == DigitsOnly(PyStr(x))
        IN IF x.t # "str" \/ x.v = <<>>
           THEN ret = PyFalse
           ELSE /\ ret \in {PyTrue, PyFalse}
                /\ Len(d) # 14 => ret = PyFalse
                /\ Len(d) = 14 =>
                       (ret = PyTrue <=>
                            /\ CheckDigit(SubSeq(d, 1, 12), CycleWeights(12)) = d[13] - 48
                            /\ CheckDigit(SubSeq(d, 1, 13), CycleWeights(13)) = d[14] - 48)
                /\ (Len(d) = 14 /\ ret = PyTrue) =>
                       \A k \in 0..9 :
                           k # d[14] - 48 =>
                               CnpjValidator__call__(Str(WithLast(d, k))) = PyFalse

\* CnpjValidator has accepted '62173620000180'
C3_Witness ==
    /\ IsCall("validate")
    /\ call.cls = "CnpjValidator"
    /\ call.arg = Str(<<54, 50, 49, 55, 51, 54, 50, 48, 48, 48, 48, 49, 56, 48>>)
    /\ ret = PyTrue

\* C4: in the modulo-11 computation each of the two check digits is 0 when
\* sum < 2 and 11 - sum otherwise, hence a single digit 0..9: for the first
\* check digit as well as for the second.
C4_CheckDigitRange ==
    (IsCall("_check_cpf") /\ call.arg.t = "str") =>
        LET cpf == _remove_non_digit_chars(call.arg).v
            sum1 == CheckCpfDv(SubSeq(cpf, 1, 9))
            sum2 == CheckCpfDv(SubSeq(cpf, 1, 10))
        IN (Len(cpf) = 11 /\ \A i \in 1..11 : IntOk(cpf[i])) =>
               /\ CheckCpfDv1(cpf) = (IF sum1 < 2 THEN 0 ELSE 11 - sum1)
               /\ CheckCpfDv2(cpf) = (IF sum2 < 2 THEN 0 ELSE 11 - sum2)
               /\ CheckCpfDv1(cpf) \in 0..9
               /\ CheckCpfDv2(cpf) \in 0..9

\* C5: every validator call returns a boolean and never raises; None is
\* treated as the empty string, so a validator of the regex family returns
\* for None what it returns for ''.
C5_ValidatorTotal ==
    IsCall("validate") =>
        /\ ret \in {PyTrue, PyFalse}
        /\ (call.arg = PyNone /\ call.cls \in RegexClasses) =>
               ret = RegexValidator__call__(regex[call.cls][call.regex], Str(<<>>))

AllIn(s, S) == \A i \in 1..Len(s) : s[i] \in S

AsciiDigit == 48..57
AsciiUpper == 65..90
AsciiLetter == (65..90) \cup (97..122)

\* what C6 says each class of the regex family accepts
C6_Accepts(cls, s) ==
    CASE cls = "RegexValidator" -> TRUE
      [] cls = "NumericValidator" -> AllIn(s, AsciiDigit)
      [] cls = "AlphaValidator" -> AllIn(s, AsciiLetter)
      [] cls = "AlnumValidator" -> AllIn(s, AsciiLetter \cup AsciiDigit)
      [] cls = "PhoneValidator" -> Len(s) \in {10, 11} /\ AllIn(s, AsciiDigit)
      [] cls = "PostCodeValidator" -> Len(s) = 8 /\ AllIn(s, AsciiDigit)
      [] cls = "IDCardValidator" -> Len(s) = 9 /\ AllIn(s, AsciiDigit)
      [] OTHER -> /\ Len(s) = 8
                  /\ AllIn(SubSeq(s, 1, 2), AsciiUpper)
                  /\ AllIn(SubSeq(s, 3, 8), AsciiDigit)

\* C6: a RegexValidator returns True iff the entire text matches its pattern:
\* the default pattern accepts every string, Numeric/Alpha/Alnum exactly the
\* strings of ASCII digits / letters / letters and digits, Phone exactly 10
\* or 11 digits, PostCode 8 digits, IDCard 9 digits, Passport 2 uppercase
\* letters and 6 digits; an instance constructed with a pattern of its own
\* (r'[0-9]*', r'[a-z][0-9][A-C]') accepts exactly the texts that pattern
\* matches entirely.
C6_RegexFullMatch ==
    (IsCall("validate") /\ call.cls \in RegexClasses /\ call.arg.t = "str") =>
        LET s == call.arg.v
        IN IF call.regex = <<>> THEN ret = Bool(C6_Accepts(call.cls, s))
           ELSE IF Len(call.regex) = 1 THEN ret = Bool(AllIn(s, AsciiDigit))
           ELSE ret = Bool(/\ Len(s) = 3
                           /\ s[1] \in 97..122
                           /\ s[2] \in AsciiDigit
                           /\ s[3] \in 65..67)

RECURSIVE Keep(_, _)
Keep(p, s) ==
    IF s = <<>> THEN <<>>
    ELSE (IF Pred(p, Head(s)) THEN <<Head(s)>> ELSE <<>>) \o Keep(p, Tail(s))

\* C7: the character filter returns exactly the characters of the text that
\* satisfy the predicate, in their order, and the empty string when the text
\* is None or empty.
C7_FilterContract ==
    IsCall("remove") =>
        IF call.arg = PyNone \/ call.arg = Str(<<>>)
        THEN ret = Str(<<>>)
        ELSE call.arg.t = "str" => ret = Str(Keep(call.cls, call.arg.v))

\* C8: storage normalisation is idempotent for every built-in normaliser:
\* inp(inp(x)) = inp(x).
C8_InpIdempotent ==
    IsCall("inp") => inp(fields, CallN, ret) = ret

FixedClasses ==
    {"PhoneNormaliser", "MobNormaliser", "PostCodeNormaliser",
     "PassportNormaliser", "IDCardNormaliser", "CpfNormaliser", "CnpjNormaliser"}

\* the lengths at which a fixed-length format is formatted
ExpectedLens(cls) ==
    CASE cls \in {"PhoneNormaliser", "MobNormaliser"} -> {10, 11}
      [] cls \in {"PostCodeNormaliser", "PassportNormaliser"} -> {8}
      [] cls = "IDCardNormaliser" -> {9}
      [] cls = "CpfNormaliser" -> {11}
      [] OTHER -> {14}

\* C9: for a fixed-length format and a text whose filtered length is the
\* expected one, outp(outp(x)) = outp(x) and outp(inp(outp(x))) = outp(x).
C9_OutpIdempotent ==
    (/\ IsCall("outp")
     /\ call.cls \in FixedClasses
     /\ Len(inp(fields, CallN, call.arg).v) \in ExpectedLens(call.cls)) =>
        /\ outp(fields, CallN, ret) = ret
        /\ outp(fields, CallN, inp(fields, CallN, ret)) = ret

\* display templates: 0 is a place for the next character, any other number
\* is the separator written there
Template(cls, len) ==
    CASE cls \in {"PhoneNormaliser", "MobNormaliser"} ->
             <<40, 0, 0, 41, 32, 0, 0, 0, 0, 32, 0, 0, 0, 0>>
             \o (IF len = 11 THEN <<0>> ELSE <<>>)
      [] cls = "PostCodeNormaliser" -> <<0, 0, 0, 0, 0, 45, 0, 0, 0>>
      [] cls = "PassportNormaliser" -> <<0, 0, 32, 0, 0, 0, 32, 0, 0, 0>>
      [] cls = "IDCardNormaliser" -> <<0, 0, 0, 0, 46, 0, 0, 0, 0, 45, 0>>
      [] cls = "CpfNormaliser" -> <<0, 0, 0, 46, 0, 0, 0, 46, 0, 0, 0, 45, 0, 0>>
      [] OTHER -> <<0, 0, 46, 0, 0, 0, 46, 0, 0, 0, 47, 0, 0, 0, 0, 45, 0, 0>>

RECURSIVE Fill(_, _)
Fill(tpl, n) ==
    IF tpl = <<>> THEN n
    ELSE IF Head(tpl) = 0 THEN <<Head(n)>> \o Fill(Tail(tpl), Tail(n))
    ELSE <<Head(tpl)>> \o Fill(Tail(tpl), n)

\* C10: outp(x) of a fixed-length format computes n = inp(x); when len(n) is
\* the expected length it returns the characters of n in order with only the
\* separators of the template inserted, otherwise it returns n itself; it
\* never raises, truncates or pads.
C10_OutpTemplate ==
    (IsCall("outp") /\ call.cls \in FixedClasses) =>
        LET n == inp(fields, CallN, call.arg).v
        IN IF Len(n) \in ExpectedLens(call.cls)
           THEN ret = Str(Fill(Template(call.cls, Len(n)), n))
           ELSE ret = Str(n)

\* CpfNormaliser().outp('706.003/991-09') has given '706.003.991-09'
C10_Witness ==
    /\ IsCall("outp")
    /\ call.cls = "CpfNormaliser"
    /\ call.arg = Str(<<55, 48, 54, 46, 48, 48, 51, 47, 57, 57, 49, 45, 48, 57>>)
    /\ ret = Str(<<55, 48, 54, 46, 48, 48, 51, 46, 57, 57, 49, 45, 48, 57>>)

\* positions of the first and the last character that is not whitespace
FirstKept(s) ==
    IF \E i \in 1..Len(s) : ~IsSpace(s[i])
    THEN CHOOSE i \in 1..Len(s) :
             ~IsSpace(s[i]) /\ \A j \in 1..(i - 1) : IsSpace(s[j])
    ELSE Len(s) + 1
LastKept(s) ==
    IF \E i \in 1..Len(s) : ~IsSpace(s[i])
    THEN CHOOSE i \in 1..Len(s) :
             ~IsSpace(s[i]) /\ \A j \in (i + 1)..Len(s) : IsSpace(s[j])
    ELSE 0

\* s without its leading (left) and trailing (right) whitespace
Trimmed(s, left, right) ==
    SubSeq(s, IF left THEN FirstKept(s) ELSE 1, IF right THEN LastKept(s) ELSE Len(s))

\* C11: the base Normaliser removes every occurrence of each character of
\* its remove set and then trims: both ends when no trim argument is given;
\* only the requested side when lstrip or rstrip is requested and strip is not
\* given; both ends when strip is requested together with lstrip or rstrip.
C11_BaseTrim ==
    (/\ IsCall("inp")
     /\ call.cls = "Normaliser"
     /\ call.arg.t = "str"
     /\ call.args.strip # "False") =>
        LET a == call.args
            removed == SelectSeq(call.arg.v,
                                 LAMBDA c : \A i \in 1..Len(a.remove) : c # a.remove[i])
            l == a.lstrip = "True"
            r == a.rstrip = "True"
            both == a.strip = "True" \/ (~l /\ ~r)
        IN ret = Str(Trimmed(removed, both \/ l, both \/ r))

\* Normaliser(lstrip=True)(' abc ') has given 'abc '
C11_Witness ==
    /\ IsCall("inp")
    /\ call.cls = "Normaliser"
    /\ call.args = [remove |-> <<>>, strip |-> "None", lstrip |-> "True",
                    rstrip |-> "None"]
    /\ call.arg = Str(<<32, 97, 98, 99, 32>>)
    /\ ret = Str(<<97, 98, 99, 32>>)

\* C12: no normaliser operation ever fails: for every normaliser of the
\* catalog, the pass-through variants included, and every input, inp and outp
\* return a string, and for None and False they return ''.
C12_NeverFails ==
    (IsCall("inp") \/ IsCall("outp")) =>
        /\ ret.t = "str"
        /\ call.arg \in Falsy => ret = Str(<<>>)

\* C13: Cleaner.ft(text) returns normaliser.outp(text) for every text, a
\* display string, whether or not Cleaner.execute accepts the text.
C13_FtIsOutp ==
    IsCall("ft") =>
        /\ ret = outp(fields, cleaners[call.cls].normaliser, call.arg)
        /\ ret.t = "str"

\* clean_cpf.ft('00000128156') has given '000.001.281-56' although
\* clean_cpf.execute raises on this text
C13_Witness ==
    /\ IsCall("ft")
    /\ call.cls = "clean_cpf"
    /\ call.arg = Str(<<48, 48, 48, 48, 48, 49, 50, 56, 49, 53, 54>>)
    /\ ret = Str(<<48, 48, 48, 46, 48, 48, 49, 46, 50, 56, 49, 45, 53, 54>>)
    /\ execute(regex, fields, cleaners[call.cls], call.arg).t = "raise"

\* the characters C14 says each of the three cleaners keeps
C14_Class(k) ==
    CASE k = "clean_numeric" -> AsciiDigit
      [] k = "clean_alpha" -> AsciiLetter
      [] OTHER -> AsciiLetter \cup AsciiDigit

\* C14: execute of the Numeric, Alpha and Alnum cleaners never raises: for
\* every text it returns the text with every character outside the class
\* (digits / letters / letters and digits) removed.
C14_FilterCleanersTotal ==
    (/\ IsCall("execute")
     /\ call.cls \in {"clean_numeric", "clean_alpha", "clean_alnum"}
     /\ call.arg.t = "str") =>
        /\ ret.t = "str"
        /\ ret.v = SelectSeq(call.arg.v, LAMBDA c : c \in C14_Class(call.cls))

\* the result of a thread's operation when it runs alone on the instances as
\* constructed
Alone(th) ==
    LET rxs == RegexInstances
        flds == [a \in BaseArgs |-> Normaliser__init__(a)]
        c == MakeCleaner(th.cls)
    IN CASE th.op = "execute" -> execute(rxs, flds, c, th.arg)
         [] th.op = "ft" -> outp(flds, c.normaliser, th.arg)
         [] th.op = "validate" -> ValidatorCall(rxs, c.validator, th.arg)
         [] th.op = "inp" -> inp(flds, c.normaliser, th.arg)
         [] OTHER -> outp(flds, c.normaliser, th.arg)

\* C15: no operation changes a configuration field of a validator, a
\* normaliser or a Cleaner after construction, and under every interleaving
\* of concurrent calls on shared instances each call returns what it returns
\* when run alone.
C15_NoSharedWrites ==
    /\ regex = RegexInstances
    /\ fields = [a \in BaseArgs |-> Normaliser__init__(a)]
    /\ cleaners = [k \in CleanerNames |-> MakeCleaner(k)]
    /\ \A t \in Threads :
           threads[t].pc = "done" => threads[t].ret = Alone(threads[t])

\* while thread 1 is between the two statements of clean_passport.execute on
\* 'aa-123456', thread 2 has run clean_passport.execute on 'AAA123456' to its
\* ValidationError
C15_Witness ==
    /\ threads[1].pc = "normalised"
    /\ threads[1].cls = "clean_passport"
    /\ threads[1].arg = Str(<<97, 97, 45, 49, 50, 51, 52, 53, 54>>)
    /\ threads[2].pc = "done"
    /\ threads[2].op = "execute"
    /\ threads[2].cls = "clean_passport"
    /\ threads[2].ret = Raise("ValidationError", "xyz")

\* C16: DobValidator()(date) returns True for every date before today and
\* False for today and for every later date.
C16_DobVerdict ==
    (IsCall("validate") /\ call.cls = "DobValidator") =>
        ret = Bool(DateLess(call.arg, call.today))

\* a text of exactly 14 ASCII digits
C17_Is14Digits(x) == x.t = "str" /\ Len(x.v) = 14 /\ AllIn(x.v, AsciiDigit)

\* the check digit of the first n digits of the text s under the weights w
C17_Digit(s, w, n) ==
    LET sum == Dot(w, [i \in 1..n |-> s[i] - 48], n) % 11
    IN IF sum < 2 THEN 0 ELSE 11 - sum

\* the verdict on s of the procedure with the weights w12 and w13
C17_Accepts(s, w12, w13) ==
    /\ C17_Digit(s, w12, 12) = s[13] - 48
    /\ C17_Digit(s, w13, 13) = s[14] - 48

\* the verdict on s with the weights descending from n + 1 down to 2
C17_DescAccepts(s) ==
    C17_Accepts(s, <<13, 12, 11, 10, 9, 8, 7, 6, 5, 4, 3, 2>>,
                <<14, 13, 12, 11, 10, 9, 8, 7, 6, 5, 4, 3, 2>>)

\* C17 as stated: for every 14-digit string the procedure of the 11-digit
\* validator, weights descending from n + 1 down to 2 over the first 12 and 13
\* digits, gives the verdict of CnpjValidator.
C17_DescendingWeights ==
    (IsCall("validate") /\ call.cls = "CnpjValidator" /\ C17_Is14Digits(call.arg)) =>
        (ret = PyTrue <=> C17_DescAccepts(call.arg.v))

\* C17 amended: for every 14-digit string CnpjValidator's verdict is that of
\* the modulo-11 rule with the weights 5,4,3,2,9,8,7,6,5,4,3,2 over the first
\* 12 digits and 6,5,4,3,2,9,8,7,6,5,4,3,2 over the first 13 (cycling 2..9
\* from the right).
C17_CyclingWeights ==
    (IsCall("validate") /\ call.cls = "CnpjValidator" /\ C17_Is14Digits(call.arg)) =>
        /\ ret \in {PyTrue, PyFalse}
        /\ ret = PyTrue <=>
               C17_Accepts(call.arg.v, <<5, 4, 3, 2, 9, 8, 7, 6, 5, 4, 3, 2>>,
                           <<6, 5, 4, 3, 2, 9, 8, 7, 6, 5, 4, 3, 2>>)

\* CnpjValidator has accepted '90400888000142', which the descending weights
\* reject
C17_Witness ==
    /\ IsCall("validate")
    /\ call.cls = "CnpjValidator"
    /\ call.arg = Str(<<57, 48, 52, 48, 48, 56, 56, 56, 48, 48, 48, 49, 52, 50>>)
    /\ ret = PyTrue
    /\ ~C17_DescAccepts(call.arg.v)

\* C18: every value a Cleaner accepts is a fixed point of it: if execute(x)
\* returns v then execute(v) returns v.
C18_AcceptedIsFixedPoint ==
    (IsCall("execute") /\ ret.t # "raise") =>
        execute(regex, fields, cleaners[call.cls], ret) = ret

\* clean_passport.execute('aa-123456') has returned 'AA123456'
C18_Witness ==
    /\ IsCall("execute")
    /\ call.cls = "clean_passport"
    /\ call.arg = Str(<<97, 97, 45, 49, 50, 51, 52, 53, 54>>)
    /\ ret = Str(<<65, 65, 49, 50, 51, 52, 53, 54>>)

\* C19: display formatting loses no information: for every normaliser and
\* every text, inp(outp(x)) = inp(x); and whenever execute(x) succeeds,
\* execute(ft(execute(x))) = execute(x).
C19_DisplayRoundTrip ==
    /\ (IsCall("outp") /\ call.arg.t # "date") =>
           inp(fields, CallN, ret) = inp(fields, CallN, call.arg)
    /\ (IsCall("execute") /\ ret.t # "raise") =>
           LET c == cleaners[call.cls]
           IN execute(regex, fields, c, ft(fields, c, ret)) = ret

====
